---- MODULE Spec2Model ----
(***************************************************************************)
(* Model of TradingBot_Backtesting.py: the data fetch with its minimum-row *)
(* check, the three indicators of CustomRSIStrategy.init (custom_rsi,      *)
(* safe_sma, ta.atr) and the per-bar evaluator CustomRSIStrategy.next.     *)
(*                                                                         *)
(* Numbers are exact rationals <<num, den>> with den > 0, kept in lowest   *)
(* terms; NaN is <<0, 0>>.  Series are sequences: bar index i of the code  *)
(* (0-based) is element i + 1.                                             *)
(***************************************************************************)
EXTENDS Integers, Sequences, FiniteSets

VARIABLES
    pc,        \* "fetch", "init", "run", "done" or "error": the script's position
    supplied,  \* the klines the bar source returns to get_binance_4h_data
    data,      \* the OHLCV frame the Backtest runs on
    cfg,       \* the strategy's parameters (class attributes, overridable)
    rsi,       \* self.rsi, <<>> until init has bound it
    sma,       \* self.sma
    atr,       \* self.atr
    i,         \* index of the last bar next() was evaluated on, -1 before
    position,  \* the position state next() read on bar i
    ready,     \* outcome of the warm-up gate of next() on bar i
    intent,    \* what next() emitted on bar i
    raised,    \* the exceptions raised so far, in order
    broker     \* how the installed backtesting.py adjusts an order's price

vars == <<pc, supplied, data, cfg, rsi, sma, atr, i, position, ready, intent, raised, broker>>

-----------------------------------------------------------------------------
(* Bounds of the model *)

MaxBars == 4       \* longest bar sequence of the small specification
MaxHoldBars == 5   \* longest bar sequence of the specification of held positions
MaxRsiPeriod == 2  \* rsi_period is 1..MaxRsiPeriod
MaxSmaPeriod == 3  \* sma_period is 1..MaxSmaPeriod
MaxAtrPeriod == 3  \* atr_period is 1..MaxAtrPeriod
RowSlack == 2      \* the bar source returns MinRows - RowSlack .. MinRows + RowSlack rows
ScenarioLen == 150 \* length of the warm-up scenario's bar sequence

-----------------------------------------------------------------------------
(* Exact arithmetic with NaN *)

NaN == <<0, 0>>

IsNan(x) == x[2] = 0

RECURSIVE Gcd(_, _)
Gcd(a, b) == IF b = 0 THEN a ELSE Gcd(b, a % b)

Abs(n) == IF n < 0 THEN -n ELSE n

Rat(n, d) ==
    IF d = 0 THEN NaN
    ELSE LET g == Gcd(Abs(n), Abs(d))
             s == IF d < 0 THEN -1 ELSE 1
         IN  <<s * (n \div g), s * (d \div g)>>

FromInt(n) == <<n, 1>>

Add(a, b) == IF IsNan(a) \/ IsNan(b) THEN NaN
             ELSE Rat(a[1] * b[2] + b[1] * a[2], a[2] * b[2])

Sub(a, b) == IF IsNan(a) \/ IsNan(b) THEN NaN
             ELSE Rat(a[1] * b[2] - b[1] * a[2], a[2] * b[2])

Mul(a, b) == IF IsNan(a) \/ IsNan(b) THEN NaN
             ELSE Rat(a[1] * b[1], a[2] * b[2])

\* Float division: 0/0 is NaN.  x/0 with x # 0 (inf) needs a zero rolling
\* mean of a non-zero volume, which no volume series produces.
Div(a, b) == IF IsNan(a) \/ IsNan(b) THEN NaN
             ELSE Rat(a[1] * b[2], a[2] * b[1])

\* Comparisons with NaN are False, as in IEEE arithmetic.
Lt(a, b) == ~IsNan(a) /\ ~IsNan(b) /\ a[1] * b[2] < b[1] * a[2]

Gt(a, b) == Lt(b, a)

RECURSIVE Pow(_, _)
Pow(b, e) == IF e = 0 THEN 1 ELSE b * Pow(b, e - 1)

Max2(a, b) == IF a >= b THEN a ELSE b

\* A series held as a tuple of its values (an array), not as a rule to
\* recompute on every read.
Array(f) == f \o <<>>

-----------------------------------------------------------------------------
(* Columns of the frame *)

High(df) == Array([k \in 1..Len(df) |-> FromInt(df[k].High)])
Low(df) == Array([k \in 1..Len(df) |-> FromInt(df[k].Low)])
Close(df) == Array([k \in 1..Len(df) |-> FromInt(df[k].Close)])
Volume(df) == Array([k \in 1..Len(df) |-> FromInt(df[k].Volume)])

-----------------------------------------------------------------------------
(* pandas / pandas_ta primitives the indicators are built from *)

\* Series.rolling(window).mean(): min_periods = window, so entry k is NaN
\* until the window is full and whenever the window holds a NaN.
\* Sums are taken by halves, which keeps the evaluation shallow.
RECURSIVE SumTo(_, _, _)
SumTo(x, lo, hi) ==
    IF lo > hi THEN FromInt(0)
    ELSE IF lo = hi THEN x[lo]
    ELSE LET mid == (lo + hi) \div 2
         IN  Add(SumTo(x, lo, mid), SumTo(x, mid + 1, hi))

\* rolling mean whose window is not filled until one bar later.
RollingMean_late(x, window) ==
    Array([k \in 1..Len(x) |->
        IF k <= window THEN NaN
        ELSE Div(SumTo(x, k - window + 1, k), FromInt(window))])

RollingMean(x, window) ==
    Array([k \in 1..Len(x) |->
        IF k < window THEN NaN
        ELSE Div(SumTo(x, k - window + 1, k), FromInt(window))])

\* Series.ewm(alpha = 1/length, min_periods = length).mean() with pandas'
\* defaults adjust=True, ignore_na=False: the average of the observations
\* up to k weighted by (1 - alpha)^(k - j), NaN until `length` observations
\* have been seen.  On a NaN entry no observation is added and the average
\* stays what it was on the last observation, decayed weights and all.  The
\* weights are scaled by length^(k-1) to stay integral.  A zero observation
\* adds zero whatever its weight, and a zero sum is zero whatever the
\* weights' total.
EwmWeight(length, k, j) == Pow(length - 1, k - j) * Pow(length, j - 1)

EwmTerm(x, length, k, j) ==
    IF IsNan(x[j]) \/ x[j][1] = 0 THEN FromInt(0)
    ELSE Mul(x[j], FromInt(EwmWeight(length, k, j)))

RECURSIVE EwmNum(_, _, _, _, _)
EwmNum(x, length, k, lo, hi) ==
    IF lo > hi THEN FromInt(0)
    ELSE IF lo = hi THEN EwmTerm(x, length, k, lo)
    ELSE LET mid == (lo + hi) \div 2
         IN  Add(EwmNum(x, length, k, lo, mid), EwmNum(x, length, k, mid + 1, hi))

RECURSIVE EwmDen(_, _, _, _, _)
EwmDen(x, length, k, lo, hi) ==
    IF lo > hi THEN 0
    ELSE IF lo = hi THEN (IF IsNan(x[lo]) THEN 0 ELSE EwmWeight(length, k, lo))
    ELSE LET mid == (lo + hi) \div 2
         IN  EwmDen(x, length, k, lo, mid) + EwmDen(x, length, k, mid + 1, hi)

Nobs(x, k) == Cardinality({j \in 1..k : ~IsNan(x[j])})

\* The last observation at or before k (there is one).
LastObs(x, k) ==
    IF ~IsNan(x[k]) THEN k
    ELSE CHOOSE j \in 1..k : ~IsNan(x[j]) /\ \A m \in (j + 1)..k : IsNan(x[m])

\* The weighted average on an entry k that is an observation.
EwmMean(x, length, k) ==
    LET num == EwmNum(x, length, k, 1, k)
    IN  IF num[1] = 0 THEN FromInt(0)
        ELSE Div(num, FromInt(EwmDen(x, length, k, 1, k)))

\* pandas_ta rma(close, length)
rma(x, length) ==
    Array([k \in 1..Len(x) |->
        IF Nobs(x, k) < length THEN NaN
        ELSE EwmMean(x, length, LastObs(x, k))])

-----------------------------------------------------------------------------
(* Indicators *)

\* A pandas_ta indicator returns None (no series) when its input is shorter
\* than its length.  Frames are never empty, so <<>> stands for None and for
\* an attribute init has not bound.
None == <<>>

IsNone(s) == Len(s) = 0

\* ta.rsi(close, length)
ta_rsi(close, length) ==
    IF Len(close) < length THEN None
    ELSE LET diff == Array([k \in 1..Len(close) |->
                        IF k = 1 THEN NaN ELSE Sub(close[k], close[k - 1])])
             positive == Array([k \in 1..Len(close) |->
                        IF Lt(diff[k], FromInt(0)) THEN FromInt(0) ELSE diff[k]])
             negative == Array([k \in 1..Len(close) |->
                        IF Gt(diff[k], FromInt(0)) THEN FromInt(0) ELSE diff[k]])
             positive_avg == rma(positive, length)
             negative_avg == rma(negative, length)
         IN  Array([k \in 1..Len(close) |->
                Div(Mul(FromInt(100), positive_avg[k]),
                    Add(positive_avg[k],
                        IF IsNan(negative_avg[k]) THEN NaN
                        ELSE Rat(Abs(negative_avg[k][1]), negative_avg[k][2])))])

\* custom_rsi(data, length)
custom_rsi(df, length) ==
    LET hlc3 == Array([k \in 1..Len(df) |->
                    Div(FromInt(df[k].High + df[k].Low + df[k].Close), FromInt(3))])
        volume == Volume(df)
        volume_mean == RollingMean(volume, length)
        normalized_volume == Array([k \in 1..Len(df) |-> Div(volume[k], volume_mean[k])])
    IN  ta_rsi(Array([k \in 1..Len(df) |-> Mul(hlc3[k], normalized_volume[k])]), length)

\* ta.sma(close, length)
ta_sma(close, length) ==
    IF Len(close) < length THEN None ELSE RollingMean(close, length)

\* safe_sma() without its length check: ta.sma's None goes to .values.
safe_sma_unguarded(close_prices, period) == ta_sma(close_prices, period)

\* safe_sma(close_prices, period).  ta.sma is only reached with enough rows;
\* were it to return None, taking .values of it would raise (no series).
safe_sma(close_prices, period) ==
    IF Len(close_prices) < period
    THEN Array([k \in 1..Len(close_prices) |-> NaN])
    ELSE ta_sma(close_prices, period)

\* pandas_ta true_range: the first entry has no previous close and is NaN.
\* (non_zero_range adds the float epsilon 2.2e-16 to every High - Low when
\* some bar has High = Low.  Added to or taken from a price of 40 or more,
\* a few epsilons leave the price's float unchanged; they are taken as 0.)
true_range(high, low, close) ==
    Array([k \in 1..Len(close) |->
        IF k = 1 THEN NaN
        ELSE LET hl == Sub(high[k], low[k])
                 hc == Sub(high[k], close[k - 1])
                 cl == Sub(close[k - 1], low[k])
             IN  FromInt(Max2(Abs(hl[1]), Max2(Abs(hc[1]), Abs(cl[1]))))])

\* ta.atr(high, low, close, length), mamode "rma"
ta_atr(high, low, close, length) ==
    IF Len(close) < length THEN None
    ELSE rma(true_range(high, low, close), length)

-----------------------------------------------------------------------------
(* Strategy parameters (class attributes of CustomRSIStrategy) *)

rsi_period == 21
sma_period == 50
atr_period == 14
atr_multiplier_sl == <<3, 2>>
atr_multiplier_tp == <<5, 1>>
buy_threshold == 55
sell_threshold == 45

\* Backtest(..., commission=0.0002), and the spread, which is not passed
\* and is 0 where the engine has one.
commission == <<1, 5000>>
spread == <<0, 1>>

DefaultConfig ==
    [rsi_period |-> rsi_period, sma_period |-> sma_period, atr_period |-> atr_period,
     atr_multiplier_sl |-> atr_multiplier_sl, atr_multiplier_tp |-> atr_multiplier_tp,
     buy_threshold |-> buy_threshold, sell_threshold |-> sell_threshold]

\* get_binance_4h_data's minimum row count
MinRows == 200

-----------------------------------------------------------------------------
(* The per-bar evaluator *)

NoIntent == [kind |-> "None", sl |-> NaN, tp |-> NaN]
CloseLong == [kind |-> "CloseLong", sl |-> NaN, tp |-> NaN]
OpenLong(sl, tp) == [kind |-> "OpenLong", sl |-> sl, tp |-> tp]

\* A number compared with a series is that number on every bar.
Level(x, n) == [k \in 1..n |-> FromInt(x)]

\* backtesting.lib.crossover(series1, series2) with the arrays cut at bar k:
\* series1[-2] < series2[-2] and series1[-1] > series2[-1]; False when there
\* is no bar before k (IndexError).
crossover(series1, series2, k) ==
    /\ k >= 2
    /\ Lt(series1[k - 1], series2[k - 1])
    /\ Gt(series1[k], series2[k])

\* The gate of next(): not (isnan(sma[-1]) or isnan(atr[-1]))
Ready(s, a, k) == ~(IsNan(s[k]) \/ IsNan(a[k]))

\* next() with `not self.position` left out of the buy rule.
next_buy_ignoring_position(df, c, r, s, a, k, pos) ==
    IF ~Ready(s, a, k) THEN NoIntent
    ELSE LET current_price == Close(df)[k]
             stop_loss == Sub(current_price, Mul(c.atr_multiplier_sl, a[k]))
             take_profit == Add(current_price, Mul(c.atr_multiplier_tp, a[k]))
         IN  IF /\ crossover(r, Level(c.buy_threshold, k), k)
                /\ Gt(current_price, s[k])
             THEN OpenLong(stop_loss, take_profit)
             ELSE IF pos = "LONG" /\ crossover(Level(c.sell_threshold, k), r, k)
             THEN CloseLong
             ELSE NoIntent

\* next() with the gate testing the SMA alone.
next_gate_sma_only(df, c, r, s, a, k, pos) ==
    IF IsNan(s[k]) THEN NoIntent
    ELSE LET current_price == Close(df)[k]
             stop_loss == Sub(current_price, Mul(c.atr_multiplier_sl, a[k]))
             take_profit == Add(current_price, Mul(c.atr_multiplier_tp, a[k]))
         IN  IF /\ pos = "FLAT"
                /\ crossover(r, Level(c.buy_threshold, k), k)
                /\ Gt(current_price, s[k])
             THEN OpenLong(stop_loss, take_profit)
             ELSE IF pos = "LONG" /\ crossover(Level(c.sell_threshold, k), r, k)
             THEN CloseLong
             ELSE NoIntent

\* next() with the trend filter (price above SMA) left out of the buy rule.
next_without_trend_filter(df, c, r, s, a, k, pos) ==
    IF ~Ready(s, a, k) THEN NoIntent
    ELSE LET current_price == Close(df)[k]
             stop_loss == Sub(current_price, Mul(c.atr_multiplier_sl, a[k]))
             take_profit == Add(current_price, Mul(c.atr_multiplier_tp, a[k]))
         IN  IF pos = "FLAT" /\ crossover(r, Level(c.buy_threshold, k), k)
             THEN OpenLong(stop_loss, take_profit)
             ELSE IF pos = "LONG" /\ crossover(Level(c.sell_threshold, k), r, k)
             THEN CloseLong
             ELSE NoIntent

\* next() with the sell rule's crossover arguments the other way round.
next_sell_arguments_swapped(df, c, r, s, a, k, pos) ==
    IF ~Ready(s, a, k) THEN NoIntent
    ELSE LET current_price == Close(df)[k]
             stop_loss == Sub(current_price, Mul(c.atr_multiplier_sl, a[k]))
             take_profit == Add(current_price, Mul(c.atr_multiplier_tp, a[k]))
         IN  IF /\ pos = "FLAT"
                /\ crossover(r, Level(c.buy_threshold, k), k)
                /\ Gt(current_price, s[k])
             THEN OpenLong(stop_loss, take_profit)
             ELSE IF pos = "LONG" /\ crossover(r, Level(c.sell_threshold, k), k)
             THEN CloseLong
             ELSE NoIntent

\* next() taking the ATR of the bar before for the stop-loss and take-profit.
next_previous_atr(df, c, r, s, a, k, pos) ==
    IF ~Ready(s, a, k) THEN NoIntent
    ELSE LET current_price == Close(df)[k]
             before == IF k >= 2 THEN a[k - 1] ELSE a[k]
             stop_loss == Sub(current_price, Mul(c.atr_multiplier_sl, before))
             take_profit == Add(current_price, Mul(c.atr_multiplier_tp, before))
         IN  IF /\ pos = "FLAT"
                /\ crossover(r, Level(c.buy_threshold, k), k)
                /\ Gt(current_price, s[k])
             THEN OpenLong(stop_loss, take_profit)
             ELSE IF pos = "LONG" /\ crossover(Level(c.sell_threshold, k), r, k)
             THEN CloseLong
             ELSE NoIntent

\* CustomRSIStrategy.next on bar k (1-based) with the position read there
next(df, c, r, s, a, k, pos) ==
    IF ~Ready(s, a, k) THEN NoIntent
    ELSE LET current_price == Close(df)[k]
             stop_loss == Sub(current_price, Mul(c.atr_multiplier_sl, a[k]))
             take_profit == Add(current_price, Mul(c.atr_multiplier_tp, a[k]))
         IN  IF /\ pos = "FLAT"
                /\ crossover(r, Level(c.buy_threshold, k), k)
                /\ Gt(current_price, s[k])
             THEN OpenLong(stop_loss, take_profit)
             ELSE IF pos = "LONG" /\ crossover(Level(c.sell_threshold, k), r, k)
             THEN CloseLong
             ELSE NoIntent

\* The brokers bt.run() can build.  The repository pins no version of
\* backtesting.py: up to 0.3.x the price an order is checked against is the
\* close raised by the commission, from 0.6 on by the spread.
Brokers == {"commission", "spread"}

\* Broker._adjusted_price for a long order at bar k
AdjustedPrice(df, k, b) ==
    Mul(Close(df)[k], Add(FromInt(1), IF b = "commission" THEN commission ELSE spread))

\* The check self.buy(sl=, tp=) makes before it places a long order:
\* (sl or -inf) < adjusted_price < (tp or inf).  The order is refused with a
\* ValueError when it fails.
LongOrderValid(adjusted_price, sl, tp) ==
    /\ (sl = FromInt(0) \/ Lt(sl, adjusted_price))
    /\ (tp = FromInt(0) \/ Lt(adjusted_price, tp))

\* The position the engine can show on the next bar.  The engine owns it: a
\* buy fills on the next bar (or is cancelled, or fills and is stopped out
\* at once), a close fills on the next bar, and an open position can end on
\* any bar by its stop-loss or take-profit.
PositionAfter(pos, last) ==
    IF pos = "FLAT"
    THEN IF last.kind = "OpenLong" THEN {"LONG", "FLAT"} ELSE {"FLAT"}
    ELSE IF last.kind = "CloseLong" THEN {"FLAT"} ELSE {"LONG", "FLAT"}

-----------------------------------------------------------------------------
(* Inputs *)

Candle(high, low, close, volume) ==
    [Open |-> close, High |-> high, Low |-> low, Close |-> close, Volume |-> volume]

\* A candle with no movement.
FlatCandle(price, volume) == Candle(price, price, price, volume)

\* The candles frames are made of: a quiet candle at a low and at a high
\* price, a candle that dips and closes on its high, and one that spikes and
\* closes on its low.  Open is read by no indicator and by no rule of
\* next().  Each typical price (H + L + C) / 3 is a whole number and the
\* volumes are 1 and 3, so the typical prices, the volume ratios and every
\* threshold tie of the model are exact in the code's binary floating point
\* as well; the prices are large enough for a few float epsilons to vanish
\* next to them.
Candles ==
    {FlatCandle(48, 1), FlatCandle(64, 1), Candle(64, 40, 64, 3), Candle(96, 48, 48, 3)}

\* The candles of a market that does not move.
QuietCandles == {FlatCandle(price, volume) : price \in {48, 64}, volume \in {1, 3}}

Frames == UNION {[1..n -> Candles] : n \in 1..MaxBars}

\* Longer frames of fewer candles: long enough for a position to be opened,
\* held over a bar and met by a further signal, or ended by its stop-loss
\* or take-profit and followed by further bars.
HoldCandles == {FlatCandle(48, 1), FlatCandle(64, 1), Candle(64, 40, 64, 3)}

HoldFrames == UNION {[1..n -> HoldCandles] : n \in 1..MaxHoldBars}

\* Threshold pairs <<buy, sell>>: the defaults, and each threshold in turn at
\* the end of the RSI's range, where the RSI can sit exactly on it.
Thresholds == {<<55, 45>>, <<0, 45>>, <<55, 100>>}

Configs ==
    {[DefaultConfig EXCEPT !.rsi_period = p[1], !.sma_period = p[2], !.atr_period = p[3],
                           !.buy_threshold = t[1], !.sell_threshold = t[2]] :
        p \in (1..MaxRsiPeriod) \X (1..MaxSmaPeriod) \X (1..MaxAtrPeriod), t \in Thresholds}

\* A kline of the exchange carrying a candle.
Kline(t, candle) ==
    [timestamp |-> t, Open |-> candle.Open, High |-> candle.High, Low |-> candle.Low,
     Close |-> candle.Close, Volume |-> candle.Volume, CloseTime |-> t,
     QuoteAssetVolume |-> 0, NumberOfTrades |-> 0, TakerBuyBaseVolume |-> 0,
     TakerBuyQuoteVolume |-> 0, Ignore |-> 0]

-----------------------------------------------------------------------------
(* Actions *)

\* get_binance_4h_data() refusing a frame of exactly MinRows rows as well.
Fetch_inclusive ==
    /\ pc = "fetch"
    /\ IF Len(supplied) <= MinRows
       THEN /\ raised' = Append(raised, "InsufficientData")
            /\ pc' = "error"
            /\ data' = data
       ELSE /\ data' = [k \in 1..Len(supplied) |->
                           [f \in {"Open", "High", "Low", "Close", "Volume"} |-> supplied[k][f]]]
            /\ pc' = "init"
            /\ raised' = raised
    /\ UNCHANGED <<supplied, cfg, rsi, sma, atr, i, position, ready, intent, broker>>

\* get_binance_4h_data(): frame the klines, check the row count, keep OHLCV.
Fetch ==
    /\ pc = "fetch"
    /\ IF Len(supplied) < MinRows
       THEN /\ raised' = Append(raised, "InsufficientData")
            /\ pc' = "error"
            /\ data' = data
       ELSE /\ data' = [k \in 1..Len(supplied) |->
                           [f \in {"Open", "High", "Low", "Close", "Volume"} |-> supplied[k][f]]]
            /\ pc' = "init"
            /\ raised' = raised
    /\ UNCHANGED <<supplied, cfg, rsi, sma, atr, i, position, ready, intent, broker>>

\* bt.run() builds the broker and calls CustomRSIStrategy.init: self.I
\* binds each indicator in turn and raises when the function gives it no
\* series; the attributes after the one that failed stay unbound.
StrategyInit ==
    /\ pc = "init"
    /\ rsi' = custom_rsi(data, cfg.rsi_period)
    /\ sma' = IF IsNone(rsi') THEN sma
              ELSE safe_sma(Close(data), cfg.sma_period)
    /\ atr' = IF IsNone(rsi') \/ IsNone(sma') THEN atr
              ELSE ta_atr(High(data), Low(data), Close(data), cfg.atr_period)
    /\ IF IsNone(rsi') \/ IsNone(sma') \/ IsNone(atr')
       THEN /\ raised' = Append(raised, "IndicatorError")
            /\ pc' = "error"
       ELSE /\ pc' = "run"
            /\ raised' = raised
    /\ broker' \in Brokers
    /\ UNCHANGED <<supplied, data, cfg, i, position, ready, intent>>

\* Index (0-based) of the first defined entry of an indicator, as
\* np.isnan(indicator).argmin() gives it: 0 when no entry is defined.
FirstValid(x) ==
    LET valid == {k \in 1..Len(x) : ~IsNan(x[k])}
    IN  IF valid = {} THEN 0 ELSE (CHOOSE k \in valid : \A j \in valid : k <= j) - 1

\* Backtest.run skips the bars on which the indicators warm up: the first
\* bar next() is called on is the one after the latest first defined entry.
Start(r, s, a) == 1 + Max2(FirstValid(r), Max2(FirstValid(s), FirstValid(a)))

\* The bar (0-based) the run evaluates next.
NextBar == IF i = -1 THEN Start(rsi, sma, atr) ELSE i + 1

\* One bar of the run: the engine settles the position, then calls next().
\* `intent` is what next() asked for.  A buy whose stop-loss and take-profit
\* the broker refuses raises out of next() and out of bt.run(): the run
\* ends there, with no later bar, no statistics and no chart.
StrategyNext ==
    /\ pc = "run"
    /\ NextBar < Len(data)
    /\ i' = NextBar
    /\ \E pos \in PositionAfter(position, intent) :
          /\ position' = pos
          /\ ready' = Ready(sma, atr, i' + 1)
          /\ intent' = next(data, cfg, rsi, sma, atr, i' + 1, pos)
          /\ IF /\ intent'.kind = "OpenLong"
                /\ ~LongOrderValid(AdjustedPrice(data, i' + 1, broker), intent'.sl, intent'.tp)
             THEN /\ raised' = Append(raised, "OrderError")
                  /\ pc' = "error"
             ELSE UNCHANGED <<pc, raised>>
    /\ UNCHANGED <<supplied, data, cfg, rsi, sma, atr, broker>>

\* The run is over: statistics and the chart are written.
Finish ==
    /\ pc = "run"
    /\ NextBar >= Len(data)
    /\ pc' = "done"
    /\ UNCHANGED <<supplied, data, cfg, rsi, sma, atr, i, position, ready, intent, raised, broker>>

-----------------------------------------------------------------------------
(* Specifications *)

Fresh ==
    /\ rsi = <<>> /\ sma = <<>> /\ atr = <<>>
    /\ i = -1
    /\ position = "FLAT"
    /\ ready = FALSE
    /\ intent = NoIntent
    /\ raised = <<>>
    /\ broker = "none"

\* The strategy backtested on any small frame with any small configuration.
Init ==
    /\ pc = "init"
    /\ supplied = <<>>
    /\ data \in Frames
    /\ cfg \in Configs
    /\ Fresh

Next == StrategyInit \/ StrategyNext \/ Finish

Spec == Init /\ [][Next]_vars

\* The script: fetch, then backtest with the default parameters.  The bar
\* source returns a flat market of about MinRows rows.
InitScript ==
    /\ pc = "fetch"
    /\ \E n \in (MinRows - RowSlack)..(MinRows + RowSlack), quiet \in QuietCandles :
          supplied = [k \in 1..n |-> Kline(k, quiet)]
    /\ data = <<>>
    /\ cfg = DefaultConfig
    /\ Fresh

NextScript == Fetch \/ StrategyInit \/ StrategyNext \/ Finish

SpecScript == InitScript /\ [][NextScript]_vars

\* The warm-up scenario: ScenarioLen bars of a flat market, default periods.
InitScenario ==
    /\ pc = "init"
    /\ supplied = <<>>
    /\ \E quiet \in QuietCandles :
          data = [k \in 1..ScenarioLen |-> quiet]
    /\ cfg = DefaultConfig
    /\ Fresh

SpecScenario == InitScenario /\ [][Next]_vars

\* The strategy backtested on a longer frame, with any small configuration:
\* positions are opened, held and ended while bars remain.
InitHold ==
    /\ pc = "init"
    /\ supplied = <<>>
    /\ data \in HoldFrames
    /\ cfg \in Configs
    /\ Fresh

SpecHold == InitHold /\ [][Next]_vars

-----------------------------------------------------------------------------
(* Claims about the per-bar evaluator, checked under Spec *)

\* next() has been evaluated on bar i; K is that bar in the series.
Evaluated == i >= 0
K == i + 1

Defined(x) == x[2] # 0
Below(x, n) == x[1] < n * x[2]
Above(x, n) == x[1] > n * x[2]

\* C1: next() never emits OpenLong on a bar where the position it reads is
\* LONG, and never emits CloseLong on a bar where the position it reads is
\* FLAT, whatever the engine did to the position in between (fills,
\* cancelled orders, stop-loss and take-profit exits).  Checked under
\* SpecHold, where a held position meets further signals.
C1_IntentMatchesPosition ==
    /\ intent.kind = "OpenLong" => position = "FLAT"
    /\ intent.kind = "CloseLong" => position = "LONG"

\* C1 witness: a ready bar read LONG on which the whole buy rule but the
\* position test holds (the RSI crosses above the buy threshold, the close
\* is above the SMA), and nothing is emitted.
C1_Witness ==
    /\ Evaluated /\ position = "LONG" /\ ready
    /\ crossover(rsi, Level(cfg.buy_threshold, K), K)
    /\ Gt(Close(data)[K], sma[K])
    /\ intent = NoIntent

\* C2: the gate of next() is exactly "sma[i] defined and atr[i] defined",
\* the RSI has no part in it, and a bar that fails it emits no intent.
C2_NoIntentUntilReady ==
    Evaluated =>
        /\ ready = (Defined(sma[K]) /\ Defined(atr[K]))
        /\ ~(Defined(sma[K]) /\ Defined(atr[K])) => intent = NoIntent

\* C2 witness: a bar that is not ready although the RSI crosses above the
\* buy threshold on it, with the position flat.
C2_Witness ==
    /\ Evaluated /\ K >= 2 /\ ~ready /\ position = "FLAT"
    /\ Defined(rsi[K - 1]) /\ Below(rsi[K - 1], cfg.buy_threshold)
    /\ Defined(rsi[K]) /\ Above(rsi[K], cfg.buy_threshold)

\* C3 as claimed: on a FLAT bar OpenLong is emitted exactly when the bar is
\* ready, RSI[i-1] <= buy_threshold < RSI[i] with both defined, and
\* close[i] > SMA[i].
C3_AsClaimed ==
    (Evaluated /\ position = "FLAT") =>
        (intent.kind = "OpenLong" <=>
            /\ Defined(sma[K]) /\ Defined(atr[K])
            /\ K >= 2 /\ Defined(rsi[K - 1]) /\ Defined(rsi[K])
            /\ ~Above(rsi[K - 1], cfg.buy_threshold)
            /\ Above(rsi[K], cfg.buy_threshold)
            /\ Gt(Close(data)[K], sma[K]))

\* C3: on a FLAT bar OpenLong is emitted exactly when the bar is ready,
\* RSI[i-1] < buy_threshold < RSI[i] with both defined (an RSI equal to the
\* threshold on bar i-1 is no crossover), and close[i] > SMA[i]; in every
\* other case, an undefined RSI included, the intent is None.
C3_OpenLongExactly ==
    (Evaluated /\ position = "FLAT") =>
        /\ intent.kind = "OpenLong" <=>
              /\ Defined(sma[K]) /\ Defined(atr[K])
              /\ K >= 2 /\ Defined(rsi[K - 1]) /\ Defined(rsi[K])
              /\ Below(rsi[K - 1], cfg.buy_threshold)
              /\ Above(rsi[K], cfg.buy_threshold)
              /\ Gt(Close(data)[K], sma[K])
        /\ intent.kind # "OpenLong" => intent = NoIntent

\* C3 witness: a ready FLAT bar with the close above the SMA and the RSI
\* undefined, on which nothing is emitted and nothing raised.
C3_Witness ==
    /\ Evaluated /\ position = "FLAT" /\ ready
    /\ ~Defined(rsi[K]) /\ Gt(Close(data)[K], sma[K])
    /\ intent = NoIntent /\ pc = "run"

\* C4 as claimed: on a ready LONG bar CloseLong is emitted exactly when
\* RSI[i-1] >= sell_threshold > RSI[i] with both defined, else None.
C4_AsClaimed ==
    (Evaluated /\ position = "LONG" /\ ready) =>
        /\ intent.kind = "CloseLong" <=>
              /\ K >= 2 /\ Defined(rsi[K - 1]) /\ Defined(rsi[K])
              /\ ~Below(rsi[K - 1], cfg.sell_threshold)
              /\ Below(rsi[K], cfg.sell_threshold)
        /\ intent.kind # "CloseLong" => intent = NoIntent

\* C4: on a LONG bar CloseLong is emitted exactly when the bar is ready and
\* RSI[i-1] > sell_threshold > RSI[i] with both defined (an RSI equal to the
\* threshold on bar i-1 is no crossunder); every other LONG bar emits None.
C4_CloseLongExactly ==
    (Evaluated /\ position = "LONG") =>
        /\ intent.kind = "CloseLong" <=>
              /\ Defined(sma[K]) /\ Defined(atr[K])
              /\ K >= 2 /\ Defined(rsi[K - 1]) /\ Defined(rsi[K])
              /\ Above(rsi[K - 1], cfg.sell_threshold)
              /\ Below(rsi[K], cfg.sell_threshold)
        /\ intent.kind # "CloseLong" => intent = NoIntent

\* C4 witness: a close emitted on a LONG bar whose RSI fell through the
\* sell threshold.
C4_Witness ==
    /\ Evaluated /\ position = "LONG" /\ intent = CloseLong
    /\ Above(rsi[K - 1], cfg.sell_threshold) /\ Below(rsi[K], cfg.sell_threshold)

\* C5: an OpenLong emitted on bar i carries stopLoss = close[i] - 1.5 * atr[i]
\* and takeProfit = close[i] + 5.0 * atr[i], with the close and the ATR of
\* bar i itself.
C5_StopsFromSameBar ==
    intent.kind = "OpenLong" =>
        LET c == data[K].Close
            n == atr[K][1]
            d == atr[K][2]
        IN  /\ Defined(intent.sl) /\ Defined(intent.tp)
            /\ intent.sl[1] * 2 * d = (2 * c * d - 3 * n) * intent.sl[2]
            /\ intent.tp[1] * d = (c * d + 5 * n) * intent.tp[2]

\* C5 witness: an accepted OpenLong on a bar whose ATR is positive and
\* differs from the ATR of the bar before.
C5_Witness ==
    /\ intent.kind = "OpenLong" /\ K >= 2 /\ pc = "run"
    /\ atr[K][1] > 0 /\ Defined(atr[K - 1]) /\ atr[K - 1] # atr[K]

-----------------------------------------------------------------------------
(* Claims about the indicators *)

Raised(e) == \E j \in 1..Len(raised) : raised[j] = e

\* C6 as claimed: whatever the periods and the number of bars, init raises
\* nothing and binds three series as long as the frame.
C6_AsClaimed ==
    pc # "init" =>
        /\ ~Raised("IndicatorError")
        /\ Len(rsi) = Len(data) /\ Len(sma) = Len(data) /\ Len(atr) = Len(data)

RECURSIVE CloseSum(_, _)
CloseSum(lo, hi) == IF lo > hi THEN 0 ELSE data[hi].Close + CloseSum(lo, hi - 1)

\* C7: for any period >= 1, safe_sma returns without raising a series as
\* long as the closes: all undefined when there are fewer closes than the
\* period, else undefined on the first period - 1 bars and the mean of the
\* last `period` closes on every later bar.
C7_SafeSma ==
    (pc # "init" /\ ~IsNone(rsi)) =>
        /\ Len(sma) = Len(data)
        /\ \A k \in 1..Len(sma) :
              IF Len(data) < cfg.sma_period \/ k < cfg.sma_period
              THEN ~Defined(sma[k])
              ELSE /\ Defined(sma[k])
                   /\ sma[k][1] * cfg.sma_period
                        = sma[k][2] * CloseSum(k - cfg.sma_period + 1, k)

\* C7 witness: safe_sma has returned for a frame shorter than its period.
C7_Witness == pc = "run" /\ Len(sma) = Len(data) /\ Len(data) < cfg.sma_period

\* C10 as claimed: every OpenLong has its stop-loss strictly below and its
\* take-profit strictly above the close of the bar it is emitted on.
C10_AsClaimed ==
    intent.kind = "OpenLong" =>
        /\ Lt(intent.sl, FromInt(data[K].Close))
        /\ Lt(FromInt(data[K].Close), intent.tp)

-----------------------------------------------------------------------------
(* Claims about the script, checked under SpecScript *)

Columns == {"Open", "High", "Low", "Close", "Volume"}

\* C8: with fewer than MinRows rows the fetch raises the insufficient-data
\* error once and nothing else ever runs: no indicator is computed, no bar
\* is evaluated, nothing more is raised.  With MinRows rows or more that
\* error is never raised and the frame handed on holds every row with the
\* five OHLCV columns.
C8_FailFast ==
    /\ Len(supplied) < MinRows =>
          /\ pc \in {"fetch", "error"}
          /\ pc = "error" => raised = <<"InsufficientData">>
          /\ pc = "fetch" => raised = <<>>
          /\ data = <<>> /\ rsi = <<>> /\ sma = <<>> /\ atr = <<>>
          /\ i = -1 /\ intent = NoIntent /\ position = "FLAT"
    /\ Len(supplied) >= MinRows =>
          /\ ~Raised("InsufficientData")
          /\ pc # "fetch" =>
                /\ Len(data) = Len(supplied)
                /\ \A k \in 1..Len(data) :
                      /\ DOMAIN data[k] = Columns
                      /\ \A f \in Columns : data[k][f] = supplied[k][f]

\* C8 witness: the fetch has failed on one row too few.
C8_Witness == pc = "error" /\ Len(supplied) = MinRows - 1 /\ Raised("InsufficientData")

-----------------------------------------------------------------------------
(* Claims about the warm-up scenario, checked under SpecScenario *)

\* C9: with sma_period = 50 and atr_period = 14 the first 49 SMA entries
\* are undefined, every ATR entry beyond index 13 is defined, and the gate
\* of next() is closed on every bar before index 49 and open on every bar
\* from index 49 on.
C9_WarmUp ==
    pc \in {"run", "done"} =>
        /\ \A k \in 1..49 : ~Defined(sma[k])
        /\ \A k \in 15..Len(atr) : Defined(atr[k])
        /\ \A k \in 1..Len(data) : (Defined(sma[k]) /\ Defined(atr[k])) <=> k >= 50
        /\ Evaluated => (ready <=> i >= 49)

\* C9 witness: the last bar of the scenario has been evaluated, ready.
C9_Witness == pc = "run" /\ i = Len(data) - 1 /\ i > 49 /\ ready

====
